---- MODULE Spec2Model ----
(***************************************************************************)
(* Behavior tree engine of src/BehaviorTree.h (namespace BHT).             *)
(*                                                                         *)
(* The consumer builds nodes bottom-up (leaves, composites whose           *)
(* constructors _attach their children, Inverter decorators), may set      *)
(* DEBUG on any node, then constructs the BehaviorTree driver, calls       *)
(* Update any number of times and finally destroys the driver.             *)
(*                                                                         *)
(* Two expressions of the header do not compile as written and are read    *)
(* as the evident intent: `child.eval()` (line 403, child is a pointer) as *)
(* child->eval(), and `delete this->root` (line 200, the member is _root)  *)
(* as delete _root.                                                        *)
(***************************************************************************)
EXTENDS Integers, Sequences, FiniteSets

\* Number of nodes the consumer may construct.
MaxNodes == 3
\* Number of nodes on which the consumer sets DEBUG itself.
MaxDebug == 1

\* nullptr, for node pointers and for the context pointer.
NULL == 0
\* The one context object the consumer owns.
Ctx == 1

Nodes == 1..MaxNodes
\* The Root<T> object allocated by the BehaviorTree constructor.
RootId == MaxNodes + 1
AllNodes == 1..RootId

SUCCESS == "SUCCESS"
RUNNING == "RUNNING"
FAILURE == "FAILURE"
NodeState == {SUCCESS, RUNNING, FAILURE}

LeafKinds == {"ConditionLeaf", "ActionLeaf"}
CompositeKinds == {"Selector", "Sequence", "ParallelSequence"}

VARIABLES
    kind,       \* dynamic type of each node, "none" while not constructed
    context,    \* Node::context
    parent,     \* Node::parent
    state,      \* Node::state
    children,   \* Node::children
    DEBUG,      \* Node::DEBUG
    child,      \* Root::child and IDecorator::child
    _root,      \* BehaviorTree::_root, NULL while no driver exists
    phase,      \* "building", "failed", "live", "destroyed"
    destroyed,  \* how many times each node's destructor has run
    flagged,    \* the nodes on which the consumer set DEBUG
    given,      \* the context argument of the BehaviorTree constructor, once called
    assigned,   \* the nodes whose context field a propagation pass has written
    wasRunning, \* the leaves that returned RUNNING in the Update before the last
    log,        \* eval() calls of the last Update: <<"enter"|"exit", node>>
    trace,      \* printState() output of the last Update: <<name, state>>
    returned,   \* what each node's _evaluate returned in the last Update, or "none"
    asked,      \* what condition() answered in the last Update: "true", "false", "none"
    everTicked  \* the nodes eval() has been called on in any Update so far

vars == <<kind, context, parent, state, children, DEBUG, child, _root, phase,
          destroyed, flagged, given, assigned, wasRunning, log, trace, returned, asked,
                   everTicked>>

Created == {n \in Nodes : kind[n] # "none"}
\* Nodes the consumer still holds itself: attached nowhere.
Loose == {n \in Created : parent[n] = NULL}

\* The loose nodes in the order of their construction.
RECURSIVE Ascending(_)
Ascending(S) ==
    IF S = {} THEN <<>>
    ELSE LET m == CHOOSE x \in S : \A y \in S : x <= y
         IN <<m>> \o Ascending(S \ {m})

\* Node identities are addresses and carry no meaning, so the consumer's
\* nodes are numbered in post-order: a new parent takes the k most recently
\* constructed loose nodes as its children, oldest first.  Every ordered
\* tree over the node kinds is built exactly once this way.
LastLoose(k) ==
    LET all == Ascending(Loose)
        m == IF k < Len(all) THEN k ELSE Len(all)
    IN [i \in 1..m |-> all[Len(all) - m + i]]

Range(s) == {s[i] : i \in DOMAIN s}

Init ==
    /\ kind = [n \in AllNodes |-> "none"]
    /\ context = [n \in AllNodes |-> NULL]
    /\ parent = [n \in AllNodes |-> NULL]
    /\ state = [n \in AllNodes |-> FAILURE]
    /\ children = [n \in AllNodes |-> <<>>]
    /\ DEBUG = [n \in AllNodes |-> FALSE]
    /\ child = [n \in AllNodes |-> NULL]
    /\ _root = NULL
    /\ phase = "building"
    /\ destroyed = [n \in AllNodes |-> 0]
    /\ flagged = {}
    /\ given = <<>>
    /\ assigned = {}
    /\ wasRunning = {}
    /\ log = <<>>
    /\ trace = <<>>
    /\ returned = [n \in AllNodes |-> "none"]
    /\ asked = [n \in AllNodes |-> "none"]
    /\ everTicked = {}

\* The next node the consumer constructs.
Fresh == Cardinality(Created) + 1

\* Node::Node on object n of dynamic type k, on a heap h of node fields.
NodeCtor(h, n, k) ==
    [h EXCEPT !.kind[n] = k, !.parent[n] = NULL, !.context[n] = NULL,
              !.state[n] = FAILURE]

\* An _attach that puts the new child in front of the others.
AttachInFront(h, p, c) ==
    [h EXCEPT !.parent[c] = p, !.children[p] = <<c>> \o @]

\* Node::_attach: p->_attach(c).
Attach(h, p, c) ==
    [h EXCEPT !.parent[c] = p, !.children[p] = Append(@, c)]

RECURSIVE AttachAll(_, _, _, _)
AttachAll(h, p, kids, i) ==
    IF i > Len(kids) THEN h ELSE AttachAll(Attach(h, p, kids[i]), p, kids, i + 1)

\* The fields of all node objects; threw is set once an exception is in flight.
Heap == [kind |-> kind, parent |-> parent, context |-> context, state |-> state,
         children |-> children, child |-> child, DEBUG |-> DEBUG,
         assigned |-> assigned, threw |-> FALSE]

SetHeap(h) ==
    /\ kind' = h.kind
    /\ parent' = h.parent
    /\ context' = h.context
    /\ state' = h.state
    /\ children' = h.children
    /\ child' = h.child
    /\ DEBUG' = h.DEBUG
    /\ assigned' = h.assigned

\* IConditionLeaf / IActionLeaf constructors.
NewLeaf(k) ==
    /\ phase = "building"
    /\ Fresh \in Nodes
    /\ SetHeap(NodeCtor(Heap, Fresh, k))
    /\ UNCHANGED <<_root, phase, destroyed, flagged, given, wasRunning, log, trace, returned, asked,
                   everTicked>>

\* A consumer composite derived from ISelectorBranch, ISequenceBranch or
\* IParalellSequence whose constructor attaches kids with _attach.
NewComposite(k, kids) ==
    /\ phase = "building"
    /\ Fresh \in Nodes
    /\ SetHeap(AttachAll(NodeCtor(Heap, Fresh, k), Fresh, kids, 1))
    /\ UNCHANGED <<_root, phase, destroyed, flagged, given, wasRunning, log, trace, returned, asked,
                   everTicked>>

\* IDecorator::IDecorator through Inverter::Inverter.
IDecoratorCtor(h, n, c) ==
    [NodeCtor(h, n, "Inverter") EXCEPT !.child[n] = c, !.parent[c] = n]

NewInverter(c) ==
    /\ phase = "building"
    /\ Fresh \in Nodes
    /\ SetHeap(IDecoratorCtor(Heap, Fresh, c))
    /\ UNCHANGED <<_root, phase, destroyed, flagged, given, wasRunning, log, trace, returned, asked,
                   everTicked>>

\* The consumer writes node->DEBUG = true before the driver is constructed.
SetDebug(n) ==
    /\ phase = "building"
    /\ ~DEBUG[n]
    /\ Cardinality(flagged) < MaxDebug
    /\ DEBUG' = [DEBUG EXCEPT ![n] = TRUE]
    /\ flagged' = flagged \cup {n}
    /\ UNCHANGED <<kind, context, parent, state, children, child, _root, phase,
                   destroyed, given, assigned, wasRunning, log, trace, returned, asked,
                   everTicked>>

Build ==
    \/ \E k \in LeafKinds : NewLeaf(k)
    \/ \E k \in CompositeKinds : \E m \in 0..Cardinality(Loose) :
            NewComposite(k, LastLoose(m))
    \/ \E c \in Range(LastLoose(1)) : NewInverter(c)
    \/ \E n \in Created : SetDebug(n)

\* Node::_propagate_context, Root::_propagate_context and
\* IDecorator::_propagate_context behind the virtual call n->_propagate_context().
\* Once std::runtime_error has been thrown (h.threw) nothing executes any more.
RECURSIVE _propagate_context(_, _), NodePropagateLoop(_, _, _)

\* A propagation loop that enables DEBUG on every child, whether or not the
\* node itself is in debug mode.
NodePropagateLoopAlwaysDebug(h, n, i) ==
    IF h.threw \/ i > Len(h.children[n]) THEN h
    ELSE LET c == h.children[n][i]
             h1 == [h EXCEPT !.DEBUG[c] = TRUE]
             h2 == [h1 EXCEPT !.context[c] = h1.context[n], !.assigned = @ \cup {c}]
         IN NodePropagateLoop(_propagate_context(h2, c), n, i + 1)

\* Node::_propagate_context, the loop over children from position i on.
NodePropagateLoop(h, n, i) ==
    IF h.threw \/ i > Len(h.children[n]) THEN h
    ELSE LET c == h.children[n][i]
             h1 == IF h.DEBUG[n] THEN [h EXCEPT !.DEBUG[c] = TRUE] ELSE h
             h2 == [h1 EXCEPT !.context[c] = h1.context[n], !.assigned = @ \cup {c}]
         IN NodePropagateLoop(_propagate_context(h2, c), n, i + 1)

NodePropagate(h, n) ==
    IF h.context[n] = NULL THEN [h EXCEPT !.threw = TRUE]
    ELSE NodePropagateLoop(h, n, 1)

\* A root that pushes its context down without looking at it first.
RootPropagateUnchecked(h, n) ==
    _propagate_context(
        [h EXCEPT !.context[h.child[n]] = h.context[n],
                  !.assigned = @ \cup {h.child[n]}],
        h.child[n])

RootPropagate(h, n) ==
    IF h.context[n] = NULL THEN [h EXCEPT !.threw = TRUE]
    ELSE _propagate_context(
            [h EXCEPT !.context[h.child[n]] = h.context[n],
                      !.assigned = @ \cup {h.child[n]}],
            h.child[n])

\* A decorator without the override: the base walk over its empty children.
IDecoratorPropagateNotOverridden(h, n) == NodePropagate(h, n)

IDecoratorPropagate(h, n) ==
    _propagate_context(
        [h EXCEPT !.context[h.child[n]] = h.context[n],
                  !.DEBUG[h.child[n]] = h.DEBUG[n],
                  !.assigned = @ \cup {h.child[n]}],
        h.child[n])

_propagate_context(h, n) ==
    IF h.threw THEN h
    ELSE CASE h.kind[n] = "Root" -> RootPropagate(h, n)
           [] h.kind[n] = "Inverter" -> IDecoratorPropagate(h, n)
           [] OTHER -> NodePropagate(h, n)

\* Root::Root(context, tree).
RootCtor(h, ctx, tree) ==
    _propagate_context(
        [NodeCtor(h, RootId, "Root") EXCEPT !.child[RootId] = tree,
                                            !.context[RootId] = ctx],
        RootId)

\* The Root object is released when its constructor throws.
Released(h) ==
    [h EXCEPT !.kind[RootId] = "none", !.child[RootId] = NULL, !.context[RootId] = NULL]

\* BehaviorTree::BehaviorTree(context, tree): _root = new Root<T>(context, tree).
\* When Root::Root throws, _root is never assigned and no BehaviorTree exists
\* on which Update could be called.  The consumer hands over the one tree it
\* has composed; nodes outside the tree handed over are never touched by the
\* driver, so forests with further loose nodes add no behaviour.
Construct(ctx, tree) ==
    /\ phase = "building"
    /\ _root = NULL
    /\ Loose = {tree}
    /\ LET h == RootCtor(Heap, ctx, tree)
       IN /\ SetHeap(IF h.threw THEN Released(h) ELSE h)
          /\ _root' = IF h.threw THEN NULL ELSE RootId
          /\ phase' = IF h.threw THEN "failed" ELSE "live"
    /\ given' = <<ctx>>
    /\ UNCHANGED <<destroyed, flagged, wasRunning, log, trace, returned, asked,
                   everTicked>>

\* The nodes of the tree below (and including) n.
RECURSIVE Subtree(_)
Subtree(n) ==
    {n} \cup UNION {Subtree(children[n][i]) : i \in DOMAIN children[n]}
        \cup (IF child[n] # NULL THEN Subtree(child[n]) ELSE {})

\* What the consumer's leaf code answers during one Update: condition() of
\* every IConditionLeaf and action() of every IActionLeaf.
LeafAnswers ==
    [condition : [{n \in Nodes : kind[n] = "ConditionLeaf"} -> BOOLEAN],
     action : [{n \in Nodes : kind[n] = "ActionLeaf"} -> NodeState]]

\* A selector that lets a RUNNING child fall through to the next sibling.
SelectorReturnsOnSuccessOnly(cs) == cs = SUCCESS

\* The switch of ISelectorBranch::_evaluate: does the loop return on this child state?
SelectorReturns(cs) == cs \in {SUCCESS, RUNNING}

\* A sequence that aborts on FAILURE only and scans past a RUNNING child.
SequenceReturnsOnFailureOnly(cs) == cs = FAILURE

\* The test of ISequenceBranch::_evaluate.
SequenceReturns(cs) == cs # SUCCESS

\* A parallel sequence that stops at the first child that is not done.
ParallelReturnsOnNonSuccess(cs) == cs # SUCCESS

\* The two tests of IParalellSequence::_evaluate.
ParallelReturns(cs) == cs = FAILURE
ParallelAllSuccess(allSuccess, cs) == IF cs = RUNNING THEN FALSE ELSE allSuccess

\* An inverter that forgets to turn FAILURE into SUCCESS.
decorateKeepsFailure(childEvaluation) ==
    CASE childEvaluation = SUCCESS -> FAILURE
      [] childEvaluation = FAILURE -> FAILURE
      [] childEvaluation = RUNNING -> RUNNING

\* Inverter::decorate.
decorate(childEvaluation) ==
    CASE childEvaluation = SUCCESS -> FAILURE
      [] childEvaluation = FAILURE -> SUCCESS
      [] childEvaluation = RUNNING -> RUNNING

\* An evaluation threads s = [state, log, trace, returned, asked] through the
\* calls; _evaluate answers [s |-> the fields afterwards, ret |-> the returned
\* NodeState].
RECURSIVE eval(_, _, _), _evaluate(_, _, _), SelectorLoop(_, _, _, _),
          SequenceLoop(_, _, _, _), ParallelLoop(_, _, _, _, _)

\* Node::printState.
printState(s, n) == [s EXCEPT !.trace = Append(@, <<n, s.state[n]>>)]

\* A tick wrapper that takes a node whose cached state is SUCCESS for done
\* and does not evaluate it again.
evalSkipsDone(s, n, in) ==
    IF s.state[n] = SUCCESS THEN s
    ELSE LET r == _evaluate([s EXCEPT !.log = Append(@, <<"enter", n>>)], n, in)
             s1 == [r.s EXCEPT !.state[n] = r.ret]
             s2 == IF DEBUG[n] THEN printState(s1, n) ELSE s1
         IN [s2 EXCEPT !.log = Append(@, <<"exit", n>>)]

\* Node::eval.
eval(s, n, in) ==
    LET r == _evaluate([s EXCEPT !.log = Append(@, <<"enter", n>>)], n, in)
        s1 == [r.s EXCEPT !.state[n] = r.ret]
        s2 == IF DEBUG[n] THEN printState(s1, n) ELSE s1
    IN [s2 EXCEPT !.log = Append(@, <<"exit", n>>)]

\* A selector whose switch falls through: it answers SUCCESS for the child it
\* selects, also when that child is RUNNING.
SelectorLoopFallsThrough(s, n, i, in) ==
    IF i > Len(children[n]) THEN [s |-> s, ret |-> FAILURE]
    ELSE LET c == children[n][i]
             s1 == eval(s, c, in)
         IN IF SelectorReturns(s1.state[c]) THEN [s |-> s1, ret |-> SUCCESS]
            ELSE SelectorLoop(s1, n, i + 1, in)

\* A selector that, once a child is selected, resets the children it did not
\* reach to FAILURE.
SelectorLoopResetsRest(s, n, i, in) ==
    IF i > Len(children[n]) THEN [s |-> s, ret |-> FAILURE]
    ELSE LET c == children[n][i]
             s1 == eval(s, c, in)
             rest == {children[n][j] : j \in (i + 1)..Len(children[n])}
         IN IF SelectorReturns(s1.state[c])
            THEN [s |-> [s1 EXCEPT !.state = [m \in AllNodes |->
                                                IF m \in rest THEN FAILURE ELSE @[m]]],
                  ret |-> s1.state[c]]
            ELSE SelectorLoop(s1, n, i + 1, in)

\* ISelectorBranch::_evaluate, the loop from child i on.
SelectorLoop(s, n, i, in) ==
    IF i > Len(children[n]) THEN [s |-> s, ret |-> FAILURE]
    ELSE LET c == children[n][i]
             s1 == eval(s, c, in)
         IN IF SelectorReturns(s1.state[c]) THEN [s |-> s1, ret |-> s1.state[c]]
            ELSE SelectorLoop(s1, n, i + 1, in)

\* ISequenceBranch::_evaluate, the loop from child i on.
SequenceLoop(s, n, i, in) ==
    IF i > Len(children[n]) THEN [s |-> s, ret |-> SUCCESS]
    ELSE LET c == children[n][i]
             s1 == eval(s, c, in)
         IN IF SequenceReturns(s1.state[c]) THEN [s |-> s1, ret |-> s1.state[c]]
            ELSE SequenceLoop(s1, n, i + 1, in)

\* IParalellSequence::_evaluate, the loop from child i on.
ParallelLoop(s, n, i, allSuccess, in) ==
    IF i > Len(children[n])
    THEN [s |-> s, ret |-> IF ~allSuccess THEN RUNNING ELSE SUCCESS]
    ELSE LET c == children[n][i]
             s1 == eval(s, c, in)
         IN IF ParallelReturns(s1.state[c]) THEN [s |-> s1, ret |-> s1.state[c]]
            ELSE ParallelLoop(s1, n, i + 1, ParallelAllSuccess(allSuccess, s1.state[c]), in)

\* A condition leaf that reports a condition that does not hold yet as RUNNING.
ConditionEvaluateRunningOnFalse(s, n, in) ==
    [s |-> [s EXCEPT !.asked[n] = IF in.condition[n] THEN "true" ELSE "false"],
     ret |-> IF in.condition[n] THEN SUCCESS ELSE RUNNING]

\* IConditionLeaf::_evaluate.
ConditionEvaluate(s, n, in) ==
    [s |-> [s EXCEPT !.asked[n] = IF in.condition[n] THEN "true" ELSE "false"],
     ret |-> IF in.condition[n] THEN SUCCESS ELSE FAILURE]

\* IActionLeaf::_evaluate.
ActionEvaluate(s, n, in) == [s |-> s, ret |-> in.action[n]]

\* A decorator that calls its child's _evaluate directly, past the tick wrapper.
IDecoratorEvaluateDirect(s, n, in) ==
    LET r == _evaluate(s, child[n], in)
    IN [s |-> r.s, ret |-> decorate(r.ret)]

\* IDecorator::_evaluate: decorate(child->eval()).
IDecoratorEvaluate(s, n, in) ==
    LET s1 == eval(s, child[n], in)
    IN [s |-> s1, ret |-> decorate(s1.state[child[n]])]

\* A root that calls the top node's _evaluate directly, past the tick wrapper.
RootEvaluateDirect(s, n, in) ==
    LET r == _evaluate(s, child[n], in)
        s2 == [r.s EXCEPT !.state[n] = r.ret]
    IN [s |-> s2, ret |-> s2.state[n]]

\* Root::_evaluate: this->state = child->eval(); return this->state.
RootEvaluate(s, n, in) ==
    LET s1 == eval(s, child[n], in)
        s2 == [s1 EXCEPT !.state[n] = s1.state[child[n]]]
    IN [s |-> s2, ret |-> s2.state[n]]

\* The return of n->_evaluate() with value r.ret.
Returning(r, n) == [s |-> [r.s EXCEPT !.returned[n] = r.ret], ret |-> r.ret]

\* A Sequence that keeps a resumption point: it starts its scan at the first
\* child whose cached state is RUNNING instead of at its first child.
_evaluateResuming(s, n, in) ==
    LET running == {i \in DOMAIN children[n] : s.state[children[n][i]] = RUNNING}
        from == IF running = {} THEN 1
                ELSE CHOOSE i \in running : \A j \in running : i <= j
    IN Returning(
           CASE kind[n] = "Selector" -> SelectorLoop(s, n, 1, in)
             [] kind[n] = "Sequence" -> SequenceLoop(s, n, from, in)
             [] kind[n] = "ParallelSequence" -> ParallelLoop(s, n, 1, TRUE, in)
             [] kind[n] = "ConditionLeaf" -> ConditionEvaluate(s, n, in)
             [] kind[n] = "ActionLeaf" -> ActionEvaluate(s, n, in)
             [] kind[n] = "Inverter" -> IDecoratorEvaluate(s, n, in)
             [] kind[n] = "Root" -> RootEvaluate(s, n, in),
           n)

\* The virtual call n->_evaluate().
_evaluate(s, n, in) ==
    Returning(
        CASE kind[n] = "Selector" -> SelectorLoop(s, n, 1, in)
          [] kind[n] = "Sequence" -> SequenceLoop(s, n, 1, in)
          [] kind[n] = "ParallelSequence" -> ParallelLoop(s, n, 1, TRUE, in)
          [] kind[n] = "ConditionLeaf" -> ConditionEvaluate(s, n, in)
          [] kind[n] = "ActionLeaf" -> ActionEvaluate(s, n, in)
          [] kind[n] = "Inverter" -> IDecoratorEvaluate(s, n, in)
          [] kind[n] = "Root" -> RootEvaluate(s, n, in),
        n)

\* The tree as an Update finds it: every node with its cached state st[n],
\* and nothing evaluated yet.
Cached(st) ==
    [state |-> st, log |-> <<>>, trace |-> <<>>,
     returned |-> [n \in AllNodes |-> "none"], asked |-> [n \in AllNodes |-> "none"]]

\* An Update whose ticks print a node's state once only: every node that
\* printed has its DEBUG flag cleared.
UpdatePrintingOnce(in) ==
    /\ _root # NULL
    /\ phase = "live"
    /\ \E r \in {_evaluate(Cached(state), _root, in)} :
          /\ state' = r.s.state
          /\ log' = r.s.log
          /\ trace' = r.s.trace
          /\ returned' = r.s.returned
          /\ asked' = r.s.asked
          /\ everTicked' = everTicked \cup {log'[i][2] : i \in DOMAIN log'}
          /\ DEBUG' = [n \in AllNodes |->
                          DEBUG[n] /\ \A i \in DOMAIN r.s.trace : r.s.trace[i][1] # n]
    /\ wasRunning' = {l \in Nodes : /\ kind[l] \in LeafKinds
                                    /\ \E i \in DOMAIN log : log[i] = <<"exit", l>>
                                    /\ state[l] = RUNNING}
    /\ UNCHANGED <<kind, context, parent, children, child, _root, phase,
                   destroyed, flagged, given, assigned>>

\* BehaviorTree::Update: _root->_evaluate().
Update(in) ==
    /\ _root # NULL
    /\ phase = "live"
    /\ \E r \in {_evaluate(Cached(state), _root, in)} :
          /\ state' = r.s.state
          /\ log' = r.s.log
          /\ trace' = r.s.trace
          /\ returned' = r.s.returned
          /\ asked' = r.s.asked
          /\ everTicked' = everTicked \cup {log'[i][2] : i \in DOMAIN log'}
    /\ wasRunning' = {l \in Nodes : /\ kind[l] \in LeafKinds
                                    /\ \E i \in DOMAIN log : log[i] = <<"exit", l>>
                                    /\ state[l] = RUNNING}
    /\ UNCHANGED <<kind, context, parent, children, DEBUG, child, _root, phase,
                   destroyed, flagged, given, assigned>>

\* Node::~Node.  Every delete of a consumer node goes through a Node<T>* and
\* ~Node is not virtual, which the language leaves undefined for an object of
\* a derived type; what a build runs is ~Node, dispatched statically.  A build
\* that ran the dynamic type's destructor would do the same: no class derived
\* from Node other than Root declares a destructor, so in either case nothing
\* deletes IDecorator::child.
RECURSIVE NodeDtor(_, _), DeleteChildren(_, _, _)

DeleteChildren(d, n, i) ==
    IF i > Len(children[n]) THEN d
    ELSE DeleteChildren(NodeDtor(d, children[n][i]), n, i + 1)

NodeDtor(d, n) ==
    LET d1 == DeleteChildren(d, n, 1)
    IN [d1 EXCEPT ![n] = @ + 1]

\* Root::~Root: delete child, then the base destructor ~Node.
RootDtor(d, n) == NodeDtor(NodeDtor(d, child[n]), n)

\* BehaviorTree::~BehaviorTree: delete _root.
Destroy ==
    /\ _root # NULL
    /\ phase = "live"
    /\ destroyed' = RootDtor(destroyed, _root)
    /\ phase' = "destroyed"
    /\ UNCHANGED <<kind, context, parent, state, children, DEBUG, child, _root,
                   flagged, given, assigned, wasRunning, log, trace, returned, asked,
                   everTicked>>

Next ==
    \/ Build
    \/ \E ctx \in {NULL, Ctx} : \E tree \in Loose : Construct(ctx, tree)
    \/ \E in \in LeafAnswers : Update(in)
    \/ Destroy

Spec == Init /\ [][Next]_vars

----------------------------------------------------------------------------
\* Vocabulary of the properties.

\* The nodes eval() was called on during the last Update.
Ticked == {log[i][2] : i \in {j \in DOMAIN log : log[j][1] = "enter"}}
\* How often eval() was called on n during the last Update.
TickCount(n) == Cardinality({i \in DOMAIN log : log[i] = <<"enter", n>>})
EnterPos(n) == CHOOSE i \in DOMAIN log : log[i] = <<"enter", n>>
ExitPos(n) == CHOOSE i \in DOMAIN log : log[i] = <<"exit", n>>
\* The positions of n's children that were ticked during the last Update.
TickedKids(n) == {i \in DOMAIN children[n] : children[n][i] \in Ticked}
KidState(n, i) == state[children[n][i]]

\* The ticked children of n are a prefix of its children, each ticked once,
\* in list order, inside n's own tick.
LeftToRight(n) ==
    \A i \in TickedKids(n) :
        /\ TickCount(children[n][i]) = 1
        /\ EnterPos(n) < EnterPos(children[n][i])
        /\ ExitPos(children[n][i]) < ExitPos(n)
        /\ \A j \in 1..(i - 1) :
              /\ j \in TickedKids(n)
              /\ ExitPos(children[n][j]) < EnterPos(children[n][i])

\* C1: one tick of a Selector ticks its children left to right, returns the
\* status of the first child that is SUCCESS or RUNNING and ticks no child
\* after it; when every child is FAILURE, or there is none, it returns FAILURE.
C1_SelectorFirstNonFailure ==
    \A n \in Ticked :
        kind[n] = "Selector" =>
            /\ LeftToRight(n)
            /\ \/ \E i \in TickedKids(n) :
                    /\ KidState(n, i) \in {SUCCESS, RUNNING}
                    /\ state[n] = KidState(n, i)
                    /\ \A j \in 1..(i - 1) : KidState(n, j) = FAILURE
                    /\ \A j \in DOMAIN children[n] : j > i => j \notin TickedKids(n)
               \/ /\ TickedKids(n) = DOMAIN children[n]
                  /\ \A j \in DOMAIN children[n] : KidState(n, j) = FAILURE
                  /\ state[n] = FAILURE

\* A Selector stopped at a RUNNING first child and left its second unticked.
C1_Witness ==
    \E n \in Ticked :
        /\ kind[n] = "Selector"
        /\ Len(children[n]) = 2
        /\ 1 \in TickedKids(n)
        /\ KidState(n, 1) = RUNNING
        /\ 2 \notin TickedKids(n)
        /\ state[n] = RUNNING

\* C2: one tick of a Sequence ticks its children left to right, returns the
\* status of the first child that is not SUCCESS and ticks no later sibling;
\* when every child is SUCCESS, or there is none, it returns SUCCESS.
C2_SequenceFirstNonSuccess ==
    \A n \in Ticked :
        kind[n] = "Sequence" =>
            /\ LeftToRight(n)
            /\ \/ \E i \in TickedKids(n) :
                    /\ KidState(n, i) \in {FAILURE, RUNNING}
                    /\ state[n] = KidState(n, i)
                    /\ \A j \in 1..(i - 1) : KidState(n, j) = SUCCESS
                    /\ \A j \in DOMAIN children[n] : j > i => j \notin TickedKids(n)
               \/ /\ TickedKids(n) = DOMAIN children[n]
                  /\ \A j \in DOMAIN children[n] : KidState(n, j) = SUCCESS
                  /\ state[n] = SUCCESS

\* A Sequence stopped at a RUNNING first child and left its second unticked.
C2_Witness ==
    \E n \in Ticked :
        /\ kind[n] = "Sequence"
        /\ Len(children[n]) = 2
        /\ 1 \in TickedKids(n)
        /\ KidState(n, 1) = RUNNING
        /\ 2 \notin TickedKids(n)
        /\ state[n] = RUNNING

\* C3: in one tick of a ParallelSequence a FAILURE at position i returns
\* FAILURE at once and no child after i is ticked; without a FAILURE every
\* child is ticked exactly once, whatever RUNNING came before, and the result
\* is RUNNING iff some child returned RUNNING, otherwise SUCCESS.
C3_ParallelSequenceScan ==
    \A n \in Ticked :
        kind[n] = "ParallelSequence" =>
            /\ LeftToRight(n)
            /\ \/ \E i \in TickedKids(n) :
                    /\ KidState(n, i) = FAILURE
                    /\ state[n] = FAILURE
                    /\ \A j \in 1..(i - 1) : KidState(n, j) # FAILURE
                    /\ \A j \in DOMAIN children[n] : j > i => j \notin TickedKids(n)
               \/ /\ TickedKids(n) = DOMAIN children[n]
                  /\ \A j \in DOMAIN children[n] :
                        /\ KidState(n, j) # FAILURE
                        /\ TickCount(children[n][j]) = 1
                  /\ state[n] = RUNNING
                        <=> \E j \in DOMAIN children[n] : KidState(n, j) = RUNNING
                  /\ state[n] # RUNNING => state[n] = SUCCESS

\* A ParallelSequence ticked a second child after a RUNNING first one, and
\* that second child's FAILURE made it return FAILURE.
C3_Witness ==
    \E n \in Ticked :
        /\ kind[n] = "ParallelSequence"
        /\ Len(children[n]) = 2
        /\ TickedKids(n) = {1, 2}
        /\ KidState(n, 1) = RUNNING
        /\ KidState(n, 2) = FAILURE
        /\ state[n] = FAILURE

\* C4: one tick of an Inverter ticks its child exactly once and returns
\* FAILURE for the child's SUCCESS, SUCCESS for its FAILURE and RUNNING for
\* its RUNNING.
C4_InverterInverts ==
    \A n \in Ticked :
        kind[n] = "Inverter" =>
            /\ TickCount(child[n]) = 1
            /\ EnterPos(n) < EnterPos(child[n])
            /\ ExitPos(child[n]) < ExitPos(n)
            /\ state[child[n]] = SUCCESS => state[n] = FAILURE
            /\ state[child[n]] = FAILURE => state[n] = SUCCESS
            /\ state[child[n]] = RUNNING => state[n] = RUNNING

\* An Inverter was ticked over a child that returned FAILURE.
C4_Witness ==
    \E n \in Ticked :
        /\ kind[n] = "Inverter"
        /\ child[n] \in Ticked
        /\ state[child[n]] = FAILURE
        /\ state[n] = SUCCESS

\* The nodes of the tree the driver was given, and the driver's own root.
TreeNodes == IF _root = NULL THEN Created ELSE Subtree(child[_root])
\* Is n held by p, as one of its children or as its decorated child?
Holds(p, n) == n \in Range(children[p]) \/ child[p] = n

\* C5: constructing the driver with a null context fails during
\* construction: no driver exists on which Update could be called, and
\* propagation stopped where the null was detected, before the context field
\* or the debug flag of any node of the supplied tree was written.
C5_NullContextFailsAtOnce ==
    given = <<NULL>> =>
        /\ phase = "failed"
        /\ _root = NULL
        /\ ~ENABLED (\E in \in LeafAnswers : Update(in))
        /\ log = <<>>
        /\ assigned = {}
        /\ \A n \in Nodes : context[n] = NULL /\ (DEBUG[n] <=> n \in flagged)

\* The driver was constructed with a null context over a flagged decorator
\* that has a child.
C5_Witness ==
    /\ given = <<NULL>>
    /\ \E n \in flagged : kind[n] = "Inverter" /\ parent[n] = NULL

\* C6: once the driver is constructed with a non-null context, the top
\* node, every child of every composite and the child of every decorator
\* hold that same non-null context, also after any number of Updates.
C6_ContextEverywhere ==
    phase = "live" =>
        /\ context[_root] = given[1]
        /\ context[_root] # NULL
        /\ \A n \in TreeNodes : context[n] = context[_root] /\ n \in assigned

\* A decorator below a composite has ticked its child in a live tree.
C6_Witness ==
    /\ phase = "live"
    /\ \E n \in Ticked :
          /\ kind[n] = "Inverter"
          /\ parent[n] # NULL
          /\ child[n] \in Ticked

\* C7: a debug flag set on any node before the driver is constructed is
\* enabled on that node and on all its descendants after construction, and
\* each of their ticks then emits a trace record with name and fresh status.
C7_DebugReachesSubtree ==
    phase = "live" =>
        \A f \in flagged : \A n \in Subtree(f) :
            /\ DEBUG[n]
            /\ n \in Ticked => \E i \in DOMAIN trace : trace[i] = <<n, state[n]>>

\* C8: after construction the driver's root is the only node without a
\* parent; every other node, the top node included, has its parent set to
\* the node that holds it.
C8_OnlyRootWithoutParent ==
    phase = "live" =>
        /\ parent[_root] = NULL
        /\ Holds(_root, child[_root])
        /\ \A n \in TreeNodes : parent[n] # NULL /\ Holds(parent[n], n)

\* C9: destroying the driver destroys the root, the top node, every child
\* of every composite and the child of every decorator exactly once.
C9_EveryNodeDestroyedOnce ==
    phase = "destroyed" =>
        /\ destroyed[_root] = 1
        /\ \A n \in TreeNodes : destroyed[n] = 1

\* The nodes on the way from the top node down to l, both included.
PathTo(l) == {n \in TreeNodes : l \in Subtree(n)}
\* The siblings attached before n under its composite parent.
Before(n) ==
    IF parent[n] # NULL /\ n \in Range(children[parent[n]])
    THEN LET p == parent[n]
             k == CHOOSE i \in DOMAIN children[p] : children[p][i] = n
         IN {children[p][j] : j \in 1..(k - 1)}
    ELSE {}
\* Does a child state cs end the scan of a composite of kind k?
EndsScan(k, cs) ==
    CASE k = "Selector" -> cs # FAILURE
      [] k = "Sequence" -> cs # SUCCESS
      [] k = "ParallelSequence" -> cs = FAILURE
      [] OTHER -> FALSE

\* C10 as claimed: when an Update ended with a leaf returning RUNNING, the
\* next Update ticks again every node on the path to that leaf, each after
\* the earlier siblings it has under its composite parent.
C10_WholePathTickedAgain ==
    \A l \in wasRunning : \A n \in PathTo(l) :
        /\ n \in Ticked
        /\ \A e \in Before(n) : e \in Ticked /\ ExitPos(e) < EnterPos(n)

\* C10 as amended: when an Update ended with a leaf returning RUNNING, the
\* next Update ticks the top node again, every ticked composite on the path
\* to that leaf starts at its first child, and the child on the path is
\* ticked again, after all its earlier siblings, exactly when none of those
\* re-ticked siblings ends the parent's scan.
C10_RescanFromFirstChild ==
    \A l \in wasRunning :
        /\ child[_root] \in Ticked
        /\ \A n \in PathTo(l) \ {child[_root]} :
              parent[n] \in Ticked =>
                  /\ kind[parent[n]] \in CompositeKinds
                        => children[parent[n]][1] \in Ticked
                  /\ n \in Ticked <=>
                        \A e \in Before(n) :
                            e \in Ticked /\ ~EndsScan(kind[parent[n]], state[e])
                  /\ n \in Ticked =>
                        \A e \in Before(n) : ExitPos(e) < EnterPos(n)

\* A leaf that returned RUNNING as second child was ticked again in the next
\* Update, after its earlier sibling had been ticked again.
C10_Witness ==
    \E l \in wasRunning :
        /\ l \in Ticked
        /\ Before(l) # {}
        /\ \A e \in Before(l) : e \in Ticked /\ ExitPos(e) < EnterPos(l)

\* Has an Update run on the driver?
Updated == _root # NULL /\ log # <<>>
\* What the consumer's leaf code answered in the last Update; a leaf that was
\* not ticked was not asked, and stands here with an answer nobody reads.
AnswersGiven ==
    [condition |-> [l \in {n \in Nodes : kind[n] = "ConditionLeaf"} |-> asked[l] = "true"],
     action |-> [l \in {n \in Nodes : kind[n] = "ActionLeaf"} |->
                    IF returned[l] = "none" THEN FAILURE ELSE returned[l]]]

\* C11: the outcome of an Update depends on the tree and on what the leaves
\* answer in it, not on cached statuses: a copy of the tree whose nodes all
\* hold the cached status v, for any v, given the answers of the last Update,
\* ticks the same nodes in the same order, gets the same value from every
\* node and ends with the same status at the top as the tree itself did from
\* the statuses it held.
C11_OutcomeIgnoresCachedStatus ==
    Updated =>
        \A v \in NodeState :
            LET copy == _evaluate(Cached([n \in AllNodes |-> v]), _root, AnswersGiven).s
            IN /\ copy.log = log
               /\ copy.returned = returned
               /\ copy.state[child[_root]] = state[child[_root]]
               /\ copy.state[_root] = state[_root]

\* A leaf that held the cached status RUNNING was ticked again and answered
\* SUCCESS, below a composite and after an earlier sibling.
C11_Witness ==
    /\ Updated
    /\ \E l \in wasRunning :
          /\ l \in Ticked
          /\ state[l] = SUCCESS
          /\ Before(l) # {}

\* C12: the tick of a ConditionLeaf returns SUCCESS when its condition() is
\* true and FAILURE otherwise, and the cached status of a ConditionLeaf is
\* never RUNNING.
C12_ConditionLeafTwoValued ==
    \A n \in Nodes :
        kind[n] = "ConditionLeaf" =>
            /\ state[n] # RUNNING
            /\ n \in Ticked <=> asked[n] # "none"
            /\ asked[n] = "true" => returned[n] = SUCCESS /\ state[n] = SUCCESS
            /\ asked[n] = "false" => returned[n] = FAILURE /\ state[n] = FAILURE

\* In one Update one ConditionLeaf answered true and another answered false.
C12_Witness ==
    \E a, b \in Nodes :
        /\ kind[a] = "ConditionLeaf"
        /\ kind[b] = "ConditionLeaf"
        /\ asked[a] = "true"
        /\ asked[b] = "false"

\* The nodes of the tree whose _evaluate ran in the last Update.
Evaluated == {n \in TreeNodes : returned[n] # "none"}

\* C13: composites and decorators evaluate their children through the tick
\* wrapper only: every node of the tree whose _evaluate ran in an Update was
\* ticked, once, its cached status afterwards is the value its _evaluate
\* returned, and that value is the one its parent's rule went by.
C13_EvaluatedThroughTick ==
    Updated =>
        /\ Evaluated = Ticked
        /\ \A n \in Evaluated :
              /\ TickCount(n) = 1
              /\ state[n] = returned[n]
              /\ parent[n] # NULL /\ kind[parent[n]] = "Inverter" =>
                    returned[parent[n]] = decorate(returned[n])
              /\ parent[n] # NULL /\ kind[parent[n]] \in CompositeKinds =>
                    IF EndsScan(kind[parent[n]], returned[n])
                    THEN returned[parent[n]] = returned[n]
                    ELSE \A e \in Before(n) : ~EndsScan(kind[parent[n]], returned[e])

\* A decorator under a composite ticked its child, which returned RUNNING.
C13_Witness ==
    /\ Updated
    /\ \E n \in Ticked :
          /\ kind[n] = "Inverter"
          /\ parent[n] # NULL
          /\ returned[child[n]] = RUNNING

\* The nodes eval() is called on in the Update that a step performs.
TickedNext == {log'[i][2] : i \in DOMAIN log'}

\* C14: a node's status is changed only by its own tick: a step changes the
\* cached status of a consumer node only if it is an Update that ticks the
\* node, so every node an Update does not tick keeps its status, and a node
\* that has never been ticked holds the FAILURE of its construction.
C14_StatusChangedOnlyByOwnTick ==
    /\ [](\A n \in Nodes : n \notin everTicked => state[n] = FAILURE)
    /\ [][\A n \in Nodes :
             state'[n] # state[n] =>
                 phase = "live" /\ phase' = "live" /\ n \in TickedNext]_vars

\* After an Update, a node that the Update did not tick still holds the
\* SUCCESS of an earlier tick.
C14_Witness ==
    /\ Updated
    /\ \E n \in (everTicked \cap TreeNodes) \ Ticked : state[n] = SUCCESS

\* The positions at which n's tick starts and ends in the log.
Enters(n) == {i \in DOMAIN log : log[i] = <<"enter", n>>}
Exits(n) == {i \in DOMAIN log : log[i] = <<"exit", n>>}

\* C15: every Update runs to completion as one depth-first traversal: it
\* starts with the top node's tick and ends when that tick has ended, each
\* node is ticked at most once and every tick that started has ended, the
\* tick of a node spans the ticks of the children it evaluates, two ticks
\* are nested or apart, and the children of a node, listed in the order of
\* their attachment, are ticked in that order.
C15_OneDepthFirstTraversal ==
    /\ \A p \in Created : \A i, j \in DOMAIN children[p] :
          i < j => children[p][i] < children[p][j]
    /\ Updated =>
          /\ log[1] = <<"enter", child[_root]>>
          /\ log[Len(log)] = <<"exit", child[_root]>>
          /\ \A n \in Ticked :
                /\ Cardinality(Enters(n)) = 1
                /\ Cardinality(Exits(n)) = 1
                /\ EnterPos(n) < ExitPos(n)
                /\ n # child[_root] =>
                      /\ parent[n] \in Ticked
                      /\ EnterPos(parent[n]) < EnterPos(n)
                      /\ ExitPos(n) < ExitPos(parent[n])
                /\ \A m \in Ticked \ {n} :
                      \/ ExitPos(m) < EnterPos(n)
                      \/ ExitPos(n) < EnterPos(m)
                      \/ EnterPos(m) < EnterPos(n) /\ ExitPos(n) < ExitPos(m)
                      \/ EnterPos(n) < EnterPos(m) /\ ExitPos(m) < ExitPos(n)
                /\ \A e \in Before(n) : e \in Ticked /\ ExitPos(e) < EnterPos(n)
          /\ \A i \in DOMAIN log : log[i][2] \in Ticked

\* An Update went two levels down and ticked every node of a three-node tree.
C15_Witness ==
    /\ Updated
    /\ Cardinality(Ticked) = 3
    /\ \E n \in Ticked : parent[n] # NULL /\ parent[parent[n]] # NULL

\* C16: each Update ticks the top node exactly once through the tick
\* wrapper and records the result: afterwards the top node's cached status
\* is the status it computed in that Update, and the cached status of the
\* driver's root equals it.
C16_UpdateTicksTopOnce ==
    _root # NULL /\ returned[_root] # "none" =>
        /\ TickCount(child[_root]) = 1
        /\ Cardinality(Exits(child[_root])) = 1
        /\ returned[child[_root]] # "none"
        /\ state[child[_root]] = returned[child[_root]]
        /\ state[_root] = state[child[_root]]
        /\ returned[_root] = state[_root]

\* An Update that followed one in which a leaf returned RUNNING left SUCCESS
\* at the top node and at the root.
C16_Witness ==
    /\ Updated
    /\ wasRunning # {}
    /\ state[child[_root]] = SUCCESS
    /\ state[_root] = SUCCESS

\* The nodes of the tree that lie in no subtree the consumer flagged.
Unflagged == {n \in TreeNodes : \A f \in flagged : n \notin Subtree(f)}

\* C17: debug propagation is confined to subtrees: after the driver's
\* propagation pass a node on which the consumer did not set the debug flag,
\* and above which it set it on no ancestor, has the flag disabled, and no
\* trace record is emitted for it.
C17_DebugConfinedToSubtree ==
    phase = "live" =>
        /\ ~DEBUG[_root]
        /\ \A n \in Unflagged :
              /\ ~DEBUG[n]
              /\ \A i \in DOMAIN trace : trace[i][1] # n

\* A flagged leaf and its unflagged sibling were both ticked under an
\* unflagged composite; the trace holds the record of the flagged leaf only.
C17_Witness ==
    /\ phase = "live"
    /\ \E f \in flagged : \E b \in Unflagged :
          /\ parent[f] # NULL
          /\ parent[b] = parent[f]
          /\ parent[f] \in Unflagged
          /\ {f, b} \subseteq Ticked
          /\ trace = << <<f, state[f]>> >>

\* The positions of the children of n whose cached status is not FAILURE.
NotFailed(n) == {i \in DOMAIN children[n] : KidState(n, i) # FAILURE}

\* C18: between Updates, and before the first one, the cached status of
\* every Selector is the cached status of its first child whose cached
\* status is not FAILURE, and FAILURE when it has no such child, whatever
\* stale statuses the children after that one hold.
C18_SelectorMirrorsFirstNonFailure ==
    \A n \in Created :
        kind[n] = "Selector" =>
            IF NotFailed(n) = {} THEN state[n] = FAILURE
            ELSE \E i \in NotFailed(n) :
                    /\ \A j \in NotFailed(n) : i <= j
                    /\ state[n] = KidState(n, i)

\* A Selector holds the RUNNING of its first child while its second child,
\* not ticked in the last Update, still holds a stale SUCCESS.
C18_Witness ==
    \E n \in Ticked :
        /\ kind[n] = "Selector"
        /\ Len(children[n]) = 2
        /\ KidState(n, 1) = RUNNING
        /\ state[n] = RUNNING
        /\ 2 \notin TickedKids(n)
        /\ KidState(n, 2) = SUCCESS

\* C19: an Update changes cached statuses only: in every step from a live
\* driver to a live driver, which is an Update, the children list of every
\* node (membership and order), its parent, its context, its DEBUG flag and
\* the decorated child are what they were before the step, hence what they
\* were when the construction of the driver completed.
C19_UpdateChangesOnlyStatus ==
    [][(phase = "live" /\ phase' = "live") =>
          /\ children' = children
          /\ parent' = parent
          /\ context' = context
          /\ DEBUG' = DEBUG
          /\ child' = child
          /\ kind' = kind
          /\ _root' = _root]_vars

\* At least two Updates have run (a node ticked by an earlier one is not
\* ticked by the last one) on a tree with two children under one node, a
\* set context and a node that printed its state in the last Update and
\* still carries its DEBUG flag.
C19_Witness ==
    /\ Updated
    /\ (everTicked \cap TreeNodes) \ Ticked # {}
    /\ \E n \in TreeNodes : Len(children[n]) = 2
    /\ \A n \in TreeNodes : context[n] = Ctx
    /\ \E f \in flagged \cap Ticked :
          /\ DEBUG[f]
          /\ \E i \in DOMAIN trace : trace[i][1] = f
====
